---- MODULE Spec2Model ----
(***************************************************************************)
(* Restriction-aware routing and cluster assignment                        *)
(* (git-wpsilva/Routing_Optimization_Problem).                             *)
(*                                                                         *)
(* Geometry is abstracted to a corridor of integer positions: a node, a    *)
(* delivery and the warehouse each have one integer coordinate, a zone     *)
(* polygon is the set of positions it contains, and distance between two   *)
(* coordinates is the absolute difference.  The road graph is a weighted   *)
(* directed graph (osmnx "drive" networks are MultiDiGraphs).              *)
(***************************************************************************)
EXTENDS Integers, Sequences, FiniteSets, TLC

VARIABLES
    G,                \* base road graph [nodes, length]
    vehicles,         \* fleet: sequence of vehicle records
    deliveries,       \* deliveries.json: sequence of delivery records
    cluster_mapping,  \* cluster_debug.csv grouped: cluster_id -> list of delivery ids
    zmrc_shape,       \* ZMRC polygon (set of positions)
    ver,              \* rows of restriction_Caminhao_1: sequence of [shape, vuc_prohibited]
    rodizio_shape,    \* Rodizio Municipal polygon (set of positions)
    readable,         \* the zone files that gpd.read_file can load
    G_vehicles,       \* license_plate -> filtered graph
    cluster_queue,    \* cluster ids still to be visited by the primary pass
    used_deliveries,  \* set of delivery ids marked used
    assignments_final,\* sequence of routes; "Route k" is element k
    unassigned,       \* leftover pass: delivery ids still to be scanned
    warned,           \* delivery ids reported "could not be reassigned"
    tsp_path,         \* route_planner: the solver's cycle, as rotated so far
    stitched_path,    \* route_planner: full_path, the stitched path returned
    total_distance,   \* route_planner: the distance returned
    all_clusters,     \* clustering: ordered dict of clusters, as a sequence
    debug_data,       \* clustering: rows (delivery_id, cluster_id) of the membership table
    opt_route,        \* two_opt_fixed: the route passed in
    opt_best,         \* two_opt_fixed: best
    opt_best_cost,    \* two_opt_fixed: best_cost
    opt_improved,     \* two_opt_fixed: improved
    opt_i,            \* two_opt_fixed: i of the outer for loop
    opt_j,            \* two_opt_fixed: j of the inner for loop
    delivery_records, \* assign_clusters_to_routes: the records loaded from deliveries.json
    pending_deliveries,\* assign_clusters_to_routes: ids of the deliveries of unassigned clusters
    pc                \* position of the procedure

inputVars == <<G, vehicles, deliveries, cluster_mapping, zmrc_shape, ver, rodizio_shape,
               readable>>
heurVars  == <<G_vehicles, cluster_queue, used_deliveries, assignments_final,
               unassigned, warned>>
tspVars   == <<tsp_path, stitched_path, total_distance>>
clusVars  == <<all_clusters, debug_data>>
optVars   == <<opt_route, opt_best, opt_best_cost, opt_improved, opt_i, opt_j>>
planVars  == <<delivery_records, pending_deliveries>>
vars      == <<inputVars, heurVars, tspVars, clusVars, optVars, planVars, pc>>

-----------------------------------------------------------------------------
(* Bounds of the model *)

NumNodes == 3
MaxVehicles == 2
NumDeliveries == 3
MaxClusters == 2
MaxLoad == 2
MaxVerAreas == 2
NumPoints == 4
MaxStops == 4

Nodes == 1..NumNodes
Positions == 1..NumNodes

\* a zone polygon covers no position or one
ZoneShapes == {{}} \cup {{p} : p \in Positions}

\* restriction_ZMRC.geojson, restriction_Rodizio_Municipal.geojson,
\* restriction_Caminhao_1.geojson
ZoneFiles == {"ZMRC", "Rodizio", "VER"}

(* Program constants *)

\* utils/config.py WAREHOUSE_COORDS, as a corridor position
WAREHOUSE_COORDS == 1
\* path_length's penalty for a leg with no path
NO_PATH_PENALTY == 9999999

-----------------------------------------------------------------------------
(* Initial values of the working state of each procedure *)

HeurIdle ==
    /\ G_vehicles = <<>>
    /\ used_deliveries = {}
    /\ assignments_final = <<>>
    /\ unassigned = <<>>
    /\ warned = {}

TspIdle ==
    /\ tsp_path = <<>>
    /\ stitched_path = <<>>
    /\ total_distance = 0

ClusIdle ==
    /\ all_clusters = <<>>
    /\ debug_data = <<>>

PlanIdle ==
    /\ delivery_records = <<>>
    /\ pending_deliveries = <<>>

OptIdle ==
    /\ opt_route = <<>>
    /\ opt_best = <<>>
    /\ opt_best_cost = 0
    /\ opt_improved = FALSE
    /\ opt_i = 0
    /\ opt_j = 0

-----------------------------------------------------------------------------
(* Helpers *)

Min(S) == CHOOSE x \in S : \A y \in S : x <= y

Abs(x) == IF x < 0 THEN -x ELSE x

RECURSIVE SumSeq(_)
SumSeq(s) == IF s = <<>> THEN 0 ELSE Head(s) + SumSeq(Tail(s))

RECURSIVE Reverse(_)
Reverse(s) == IF s = <<>> THEN <<>> ELSE Reverse(Tail(s)) \o <<Head(s)>>

Range(s) == {s[i] : i \in DOMAIN s}

RECURSIVE SetToSeq(_)
\* ascending enumeration of a finite set of integers
SetToSeq(S) == IF S = {} THEN <<>> ELSE <<Min(S)>> \o SetToSeq(S \ {Min(S)})

\* list.remove(x): drops the first occurrence
RemoveFirst(s, x) ==
    LET k == Min({i \in DOMAIN s : s[i] = x})
    IN [i \in 1..(Len(s) - 1) |-> IF i < k THEN s[i] ELSE s[i + 1]]

-----------------------------------------------------------------------------
(* Graph library (networkx / osmnx), by what the calls do *)

\* node data["x"], data["y"]: node n lies at position n
NodeX(n) == n

NoPath == -1
NoNode == 0

Edges(g) == DOMAIN g.length

Succ(g, u) == {n \in g.nodes : <<u, n>> \in Edges(g)}

\* G.remove_nodes_from(rm): the nodes and every edge touching one of them go
RemoveNodes(g, rm) ==
    [nodes  |-> g.nodes \ rm,
     length |-> [e \in {e \in Edges(g) : e[1] \notin rm /\ e[2] \notin rm}
                    |-> g.length[e]]]

RECURSIVE WalkLen(_, _, _, _)
\* least weight of a walk u -> v of at most k edges, NoPath when there is none
WalkLen(g, u, v, k) ==
    IF u = v THEN 0
    ELSE IF k = 0 THEN NoPath
    ELSE LET via == [n \in Succ(g, u) |-> WalkLen(g, n, v, k - 1)]
             ok  == {n \in Succ(g, u) : via[n] # NoPath}
         IN IF ok = {} THEN NoPath
            ELSE Min({g.length[<<u, n>>] + via[n] : n \in ok})

\* nx.shortest_path_length(G, u, v, weight="length"); NoPath stands for the
\* raised NetworkXNoPath / NodeNotFound
shortest_path_length(g, u, v) ==
    IF u \notin g.nodes \/ v \notin g.nodes THEN NoPath
    ELSE WalkLen(g, u, v, Cardinality(g.nodes))

RECURSIVE shortest_path(_, _, _)
\* nx.shortest_path(G, u, v, weight="length"): a least-weight path as a node
\* list; among equal-weight paths the one through the smallest next node.
\* Only called when shortest_path_length(g, u, v) # NoPath.
shortest_path(g, u, v) ==
    IF u = v THEN <<u>>
    ELSE LET d   == shortest_path_length(g, u, v)
             nxt == Min({n \in Succ(g, u) :
                          /\ shortest_path_length(g, n, v) # NoPath
                          /\ g.length[<<u, n>>] + shortest_path_length(g, n, v) = d})
         IN <<u>> \o shortest_path(g, nxt, v)

\* ox.distance.nearest_nodes(G, X, Y): the node of G closest to the coordinate
\* (lowest id on a tie); NoNode stands for the exception raised on a graph
\* without nodes
get_nearest_node(g, coord) ==
    IF g.nodes = {} THEN NoNode
    ELSE LET best == Min({Abs(NodeX(n) - coord) : n \in g.nodes})
         IN Min({n \in g.nodes : Abs(NodeX(n) - coord) = best})

\* a two-way corridor 1 - 2 - ... - NumNodes, every segment of length 1
CorridorGraph ==
    [nodes  |-> Nodes,
     length |-> [e \in {e \in Nodes \X Nodes : Abs(e[1] - e[2]) = 1} |-> 1]]

-----------------------------------------------------------------------------
(* assign_clusters_heuristic.py: filtering *)

\* ver.iloc[0]["Description"] is read for every VER area: the first row's
\* description decides for all of them
filter_graph_for_vehicle(g, vehicle, zmrc, ver_rows) ==
    LET nodes_to_remove == {node \in g.nodes :
            \/ /\ NodeX(node) \in zmrc
               /\ \/ vehicle.type = "Truck"
                  \/ vehicle.type = "VUC" /\ ~vehicle.has_aetc
            \/ \E k \in 1..Len(ver_rows) :
                  /\ NodeX(node) \in ver_rows[k].shape
                  /\ \/ vehicle.type = "Truck"
                     \/ vehicle.type = "VUC" /\ ver_rows[1].vuc_prohibited}
    IN RemoveNodes(g, nodes_to_remove)

\* lines 26-33: gpd.read_file raises when a file cannot be read; nothing
\* catches it
prepare_restriction_shapes_fails == ~({"ZMRC", "VER"} \subseteq readable)

\* lines 165-166: G_vehicles = {plate: filter_graph_for_vehicle(G, v, ...)}
PrepareGraphs ==
    /\ pc = "start"
    /\ IF prepare_restriction_shapes_fails
       THEN /\ pc' = "load_failed"
            /\ UNCHANGED G_vehicles
       ELSE /\ G_vehicles' = [p \in {vehicles[i].license_plate : i \in DOMAIN vehicles} |->
                        LET i == CHOOSE i \in DOMAIN vehicles :
                                     /\ vehicles[i].license_plate = p
                                     /\ \A j \in DOMAIN vehicles :
                                           vehicles[j].license_plate = p => j <= i
                        IN filter_graph_for_vehicle(G, vehicles[i], zmrc_shape, ver)]
            /\ pc' = "primary"
    /\ UNCHANGED <<inputVars, optVars, planVars, tspVars, clusVars, cluster_queue, used_deliveries,
                   assignments_final, unassigned, warned>>

-----------------------------------------------------------------------------
(* assign_clusters_heuristic.py: helpers *)

deliveries_dict(did) == deliveries[CHOOSE i \in DOMAIN deliveries : deliveries[i].id = did]

\* lines 55-60: the nearest-node lookup succeeds
can_vehicle_reach_delivery(G_vehicle, delivery) ==
    get_nearest_node(G_vehicle, delivery.coords) # NoNode

\* lines 62-68: straight-line distance warehouse - delivery
score_vehicle_for_delivery(vehicle, delivery, warehouse_coords) ==
    Abs(warehouse_coords - delivery.coords)

RouteWeight(assignment) ==
    SumSeq([k \in DOMAIN assignment.deliveries |->
               deliveries_dict(assignment.deliveries[k].delivery).weight_kg])

RouteVolume(assignment) ==
    SumSeq([k \in DOMAIN assignment.deliveries |->
               deliveries_dict(assignment.deliveries[k].delivery).volume_m3])

VolumeCapacity(vehicle) == vehicle.length_m * vehicle.width_m * vehicle.height_m

\* Mutant: the load already on the route is not counted
check_capacity_ignoring_load(assignment, delivery) ==
    /\ delivery.weight_kg <= assignment.vehicle.max_weight_kg
    /\ delivery.volume_m3 <= VolumeCapacity(assignment.vehicle)

\* lines 70-78
check_capacity(assignment, delivery) ==
    LET vehicle == assignment.vehicle
        current_weight == RouteWeight(assignment)
        current_volume == RouteVolume(assignment)
        max_weight == vehicle.max_weight_kg
        max_volume == VolumeCapacity(vehicle)
    IN /\ current_weight + delivery.weight_kg <= max_weight
       /\ current_volume + delivery.volume_m3 <= max_volume

\* lines 98-106: a leg without a path costs the penalty
path_length(path, g) ==
    SumSeq([i \in 1..(Len(path) - 1) |->
               LET dist == shortest_path_length(g, path[i], path[i + 1])
               IN IF dist = NoPath THEN NO_PATH_PENALTY ELSE dist])

\* best[:i] + best[i:j][::-1] + best[j:] with Python's 0-based i, j
ReverseSegment(best, i, j) ==
    SubSeq(best, 1, i) \o Reverse(SubSeq(best, i + 1, j)) \o SubSeq(best, j + 1, Len(best))

\* Mutant: a reversal of equal cost is accepted too
Improves_or_equals(new_cost, best_cost) == new_cost <= best_cost

\* line 92
Improves(new_cost, best_cost) == new_cost < best_cost

RECURSIVE TwoOptSweep(_, _, _, _, _, _)
\* lines 86-95: one pass of the two for loops, from (i, j) on
TwoOptSweep(best, best_cost, improved, i, j, g) ==
    IF i > Len(best) - 3 THEN [best |-> best, best_cost |-> best_cost, improved |-> improved]
    ELSE IF j > Len(best) - 2 THEN TwoOptSweep(best, best_cost, improved, i + 1, i + 2, g)
    ELSE IF j - i = 1 THEN TwoOptSweep(best, best_cost, improved, i, j + 1, g)
    ELSE LET new_route == ReverseSegment(best, i, j)
             new_cost  == path_length(new_route, g)
         IN IF Improves(new_cost, best_cost)
            THEN TwoOptSweep(new_route, new_cost, TRUE, i, j + 1, g)
            ELSE TwoOptSweep(best, best_cost, improved, i, j + 1, g)

RECURSIVE TwoOptLoop(_, _, _)
\* lines 84-95: sweep until a sweep accepts nothing
TwoOptLoop(best, best_cost, g) ==
    LET r == TwoOptSweep(best, best_cost, FALSE, 1, 2, g)
    IN IF r.improved THEN TwoOptLoop(r.best, r.best_cost, g) ELSE r.best

\* lines 80-96
two_opt_fixed(route, g) == TwoOptLoop(route, path_length(route, g), g)

RECURSIVE NearestRemaining(_, _, _, _, _)
\* lines 121-131: the first remaining delivery node at the least distance from
\* current_node, NoNode when none is reachable
NearestRemaining(g, current_node, remaining, next_node, best_distance) ==
    IF remaining = <<>> THEN next_node
    ELSE LET d == Head(remaining)
             distance == shortest_path_length(g, current_node, d)
         IN IF distance # NoPath /\ (next_node = NoNode \/ distance < best_distance)
            THEN NearestRemaining(g, current_node, Tail(remaining), d, distance)
            ELSE NearestRemaining(g, current_node, Tail(remaining), next_node, best_distance)

RECURSIVE VisitRemaining(_, _, _, _)
\* lines 120-144: the while loop; yields the path so far and the node reached
VisitRemaining(g, current_node, remaining_deliveries, full_path) ==
    IF remaining_deliveries = <<>>
    THEN [full_path |-> full_path, current_node |-> current_node]
    ELSE LET next_node == NearestRemaining(g, current_node, remaining_deliveries, NoNode, 0)
         IN IF next_node = NoNode
            THEN [full_path |-> full_path, current_node |-> current_node]
            ELSE VisitRemaining(g, next_node,
                                RemoveFirst(remaining_deliveries, next_node),
                                full_path \o Tail(shortest_path(g, current_node, next_node)))

\* lines 108-153
build_full_path_strict(g, node_sequence) ==
    LET warehouse == node_sequence[1]
        stops == SubSeq(node_sequence, 2, Len(node_sequence) - 1)
        warehouse_back == node_sequence[Len(node_sequence)]
        r == VisitRemaining(g, warehouse, stops, <<warehouse>>)
    IN IF shortest_path_length(g, r.current_node, warehouse_back) # NoPath
       THEN r.full_path \o Tail(shortest_path(g, r.current_node, warehouse_back))
       ELSE r.full_path

-----------------------------------------------------------------------------
(* assign_clusters_heuristic.py: assign_clusters_heuristic *)

\* line 168: the members of the cluster not yet marked used
ClusterDeliveries(cluster_id) ==
    SelectSeq(cluster_mapping[cluster_id], LAMBDA did : did \notin used_deliveries)

\* lines 171-174: the vehicles, in fleet order, that reach every member
Candidates(cluster_deliveries) ==
    SelectSeq([i \in DOMAIN vehicles |-> i],
              LAMBDA i : \A k \in DOMAIN cluster_deliveries :
                  can_vehicle_reach_delivery(G_vehicles[vehicles[i].license_plate],
                                             deliveries_dict(cluster_deliveries[k])))

\* line 177: sorted(candidates, key=score)[0] (a stable sort: first of the least)
BestVehicle(candidates, cluster_deliveries) ==
    LET score(i) == score_vehicle_for_delivery(vehicles[i],
                        deliveries_dict(cluster_deliveries[1]), WAREHOUSE_COORDS)
        least == Min({score(candidates[k]) : k \in DOMAIN candidates})
    IN vehicles[candidates[Min({k \in DOMAIN candidates : score(candidates[k]) = least})]]

\* lines 181-188: the members whose nearest node is found
ValidDeliveries(G_vehicle, cluster_deliveries) ==
    SelectSeq(cluster_deliveries,
              LAMBDA did : get_nearest_node(G_vehicle, deliveries_dict(did).coords) # NoNode)

\* lines 191-198: the path and its length, or ok = FALSE for the raised exception
BuildRoute(G_vehicle, valid_deliveries) ==
    LET wh_node == get_nearest_node(G_vehicle, WAREHOUSE_COORDS)
        full_path == <<wh_node>>
                     \o [k \in DOMAIN valid_deliveries |->
                            get_nearest_node(G_vehicle, deliveries_dict(valid_deliveries[k]).coords)]
                     \o <<wh_node>>
        optimized_nodes == two_opt_fixed(full_path, G_vehicle)
        full_path_validated == build_full_path_strict(G_vehicle, optimized_nodes)
        legs == [i \in 1..(Len(full_path_validated) - 1) |->
                    shortest_path_length(G_vehicle, full_path_validated[i],
                                         full_path_validated[i + 1])]
    IN IF Cardinality(Range(full_path_validated)) < 2 \/ NoPath \in Range(legs)
       THEN [ok |-> FALSE, path |-> <<>>, distance_m |-> 0]
       ELSE [ok |-> TRUE, path |-> full_path_validated, distance_m |-> SumSeq(legs)]

\* Mutant: a routed delivery is not marked used
MarkUsed_none(used, valid_deliveries) == used

\* line 186: used_deliveries.add(d["id"]) for every valid delivery
MarkUsed(used, valid_deliveries) == used \cup Range(valid_deliveries)

\* Mutant: the except branch leaves the used marks in place
UnmarkUsed_kept(used, valid_deliveries) == used

\* lines 207-209: used_deliveries.discard(d["id"]) for every valid delivery
UnmarkUsed(used, valid_deliveries) == used \ Range(valid_deliveries)

\* lines 167-209: one iteration of the primary pass
ProcessCluster ==
    /\ pc = "primary"
    /\ cluster_queue # <<>>
    /\ LET cluster_id == Head(cluster_queue)
           cluster_deliveries == ClusterDeliveries(cluster_id)
           candidates == Candidates(cluster_deliveries)
       IN IF cluster_deliveries = <<>> \/ candidates = <<>>
          THEN UNCHANGED <<used_deliveries, assignments_final>>
          ELSE LET best_vehicle == BestVehicle(candidates, cluster_deliveries)
                   G_vehicle == G_vehicles[best_vehicle.license_plate]
                   valid_deliveries == ValidDeliveries(G_vehicle, cluster_deliveries)
                   r == BuildRoute(G_vehicle, valid_deliveries)
               IN IF valid_deliveries = <<>>
                  THEN UNCHANGED <<used_deliveries, assignments_final>>
                  ELSE IF r.ok
                  THEN /\ used_deliveries' = MarkUsed(used_deliveries, valid_deliveries)
                       /\ assignments_final' = Append(assignments_final,
                             [vehicle |-> best_vehicle,
                              path |-> r.path,
                              distance_m |-> r.distance_m,
                              deliveries |-> [k \in DOMAIN valid_deliveries |->
                                  [delivery |-> valid_deliveries[k],
                                   cluster_id |-> cluster_id]]])
                  ELSE /\ used_deliveries' =
                              UnmarkUsed(MarkUsed(used_deliveries, valid_deliveries),
                                         valid_deliveries)
                       /\ UNCHANGED assignments_final
    /\ cluster_queue' = Tail(cluster_queue)
    /\ UNCHANGED <<inputVars, optVars, planVars, tspVars, clusVars, G_vehicles, unassigned, warned, pc>>

\* line 211: unassigned = [d for d in deliveries if d["id"] not in used_deliveries]
StartLeftovers ==
    /\ pc = "primary"
    /\ cluster_queue = <<>>
    /\ unassigned' = SelectSeq([i \in DOMAIN deliveries |-> deliveries[i].id],
                               LAMBDA did : did \notin used_deliveries)
    /\ pc' = "leftover"
    /\ UNCHANGED <<inputVars, optVars, planVars, tspVars, clusVars, G_vehicles, cluster_queue, used_deliveries,
                   assignments_final, warned>>

\* line 219: the cluster id "Reassigned" of an attached leftover (cluster ids
\* of the table are 1, 2, ...)
Reassigned == 0

\* lines 214-216: the routes, in creation order, that reach d and have room for it
Admitting(d) ==
    {k \in DOMAIN assignments_final :
        /\ can_vehicle_reach_delivery(
               G_vehicles[assignments_final[k].vehicle.license_plate], d)
        /\ check_capacity(assignments_final[k], d)}

\* Mutant: the leftover gets a route of its own, a copy of the admitting route
AttachLeftover_new_route(did, admitting) ==
    Append(assignments_final,
           [assignments_final[Min(admitting)] EXCEPT !.deliveries =
               <<[delivery |-> did, cluster_id |-> Reassigned]>>])

\* Mutant: the scan does not stop at the first admitting route
AttachLeftover_no_break(did, admitting) ==
    [k \in DOMAIN assignments_final |->
        IF k \in admitting
        THEN [assignments_final[k] EXCEPT !.deliveries =
                 Append(@, [delivery |-> did, cluster_id |-> Reassigned])]
        ELSE assignments_final[k]]

\* lines 217-222: append to the first admitting route, then break
AttachLeftover(did, admitting) ==
    [assignments_final EXCEPT ![Min(admitting)].deliveries =
        Append(@, [delivery |-> did, cluster_id |-> Reassigned])]

\* lines 212-226: one iteration of the leftover pass
ReassignLeftover ==
    /\ pc = "leftover"
    /\ unassigned # <<>>
    /\ LET did == Head(unassigned)
           admitting == Admitting(deliveries_dict(did))
       IN IF admitting # {}
          THEN /\ assignments_final' = AttachLeftover(did, admitting)
               /\ UNCHANGED warned
          ELSE /\ warned' = warned \cup {did}
               /\ UNCHANGED assignments_final
    /\ unassigned' = Tail(unassigned)
    /\ UNCHANGED <<inputVars, optVars, planVars, tspVars, clusVars, G_vehicles, cluster_queue, used_deliveries, pc>>

\* line 227: return assignments_final
Return ==
    /\ pc = "leftover"
    /\ unassigned = <<>>
    /\ pc' = "done"
    /\ UNCHANGED <<inputVars, optVars, planVars, tspVars, clusVars, G_vehicles, cluster_queue, used_deliveries,
                   assignments_final, unassigned, warned>>

-----------------------------------------------------------------------------
(* Inputs of assign_clusters_heuristic *)

\* Every segment k - k+1 of the corridor is two-way, one-way outbound (away
\* from the warehouse end) or closed.  An inbound-only segment is left out:
\* every search of the procedure starts from a node reached from the
\* warehouse, so it behaves as a closed one.
SegmentStates == {"two-way", "outbound", "closed"}

RoadNetworks ==
    {[nodes  |-> Nodes,
      length |-> [e \in {e \in Edges(CorridorGraph) :
                            \/ e[2] = e[1] + 1 /\ st[e[1]] # "closed"
                            \/ e[1] = e[2] + 1 /\ st[e[2]] = "two-way"} |-> 1]] :
        st \in [1..(NumNodes - 1) -> SegmentStates]}

\* a heavy truck (kept out of ZMRC) and a lighter VUC holding the AETC permit
HeuristicVehicles ==
    {[type |-> "Truck", has_aetc |-> FALSE, max_weight_kg |-> MaxLoad + 1,
      length_m |-> 2, width_m |-> 1, height_m |-> 1,
      allowed_in_zmrc |-> FALSE, allowed_in_rodizio |-> TRUE],
     [type |-> "VUC", has_aetc |-> TRUE, max_weight_kg |-> MaxLoad,
      length_m |-> 2, width_m |-> 1, height_m |-> 1,
      allowed_in_zmrc |-> TRUE, allowed_in_rodizio |-> TRUE]}

\* fleets of 1..MaxVehicles vehicles; the plate is the position in the fleet
Fleets ==
    UNION {{[i \in 1..n |-> [license_plate |-> i] @@ f[i]] : f \in [1..n -> HeuristicVehicles]}
              : n \in 1..MaxVehicles}

DeliverySets ==
    {[i \in 1..NumDeliveries |-> [id |-> i, coords |-> c[i], weight_kg |-> w[i], volume_m3 |-> 1]] :
        c \in [1..NumDeliveries -> Positions \ {WAREHOUSE_COORDS}],
        w \in [1..NumDeliveries -> 1..MaxLoad]}

\* cluster_debug.csv holds every delivery at most once; a delivery without a
\* row (cluster 0 here) is in no cluster
ClusterTables ==
    {[c \in {a[d] : d \in 1..NumDeliveries} \ {0} |->
         SetToSeq({d \in 1..NumDeliveries : a[d] = c})] :
        a \in [1..NumDeliveries -> 0..MaxClusters]}

Init ==
    /\ G \in RoadNetworks
    /\ vehicles \in Fleets
    /\ deliveries \in DeliverySets
    /\ cluster_mapping \in ClusterTables
    /\ zmrc_shape = {NumNodes}
    /\ rodizio_shape = {}
    /\ ver = <<>>
    /\ cluster_queue = SetToSeq(DOMAIN cluster_mapping)
    /\ readable = ZoneFiles
    /\ HeurIdle /\ TspIdle /\ ClusIdle /\ PlanIdle /\ OptIdle
    /\ pc = "start"

Next ==
    \/ PrepareGraphs
    \/ ProcessCluster
    \/ StartLeftovers
    \/ ReassignLeftover
    \/ Return

Spec == Init /\ [][Next]_vars

-----------------------------------------------------------------------------
(* route_planner.py: compute_shortest_path_with_restrictions *)

\* lines 45-80: the same tests as in assign_clusters_heuristic.py, on the
\* shapes it reads from the same two files
filter_graph_for_vehicle_rp(g, vehicle) ==
    filter_graph_for_vehicle(g, vehicle, zmrc_shape, ver)

\* line 87 (the vehicle is the only element of the fleet here)
RpGraph == filter_graph_for_vehicle_rp(G, vehicles[1])

\* line 88
RpWarehouseNode == get_nearest_node(RpGraph, WAREHOUSE_COORDS)

\* lines 90-98: the nearest node of every delivery point that has one
RpDeliveryNodes ==
    LET found == SelectSeq(deliveries,
                           LAMBDA d : get_nearest_node(RpGraph, d.coords) # NoNode)
    IN [k \in DOMAIN found |-> get_nearest_node(RpGraph, found[k].coords)]

\* line 106
RpNodes == <<RpWarehouseNode>> \o RpDeliveryNodes

\* lines 108-117: tsp_graph, an undirected graph; the edge {u, v} exists when
\* some pair i < j of the list has a path nodes[i] -> nodes[j], and carries
\* the distance of the last such pair (add_edge overwrites)
TspPairs(nodes, g, e) ==
    {ij \in (DOMAIN nodes) \X (DOMAIN nodes) :
        /\ ij[1] < ij[2]
        /\ {nodes[ij[1]], nodes[ij[2]]} = e
        /\ shortest_path_length(g, nodes[ij[1]], nodes[ij[2]]) # NoPath}

TspGraph(nodes, g) ==
    LET es == {e \in {{nodes[i], nodes[j]} : i, j \in DOMAIN nodes} : TspPairs(nodes, g, e) # {}}
        last(e) == CHOOSE ij \in TspPairs(nodes, g, e) :
                      \A kl \in TspPairs(nodes, g, e) :
                          kl[1] < ij[1] \/ (kl[1] = ij[1] /\ kl[2] <= ij[2])
    IN [nodes  |-> UNION es,
        weight |-> [e \in es |-> shortest_path_length(g, nodes[last(e)[1]], nodes[last(e)[2]])]]

\* lines 119-120
TspIncomplete(tg) ==
    LET expected_edges == (Cardinality(tg.nodes) * (Cardinality(tg.nodes) - 1)) \div 2
    IN Cardinality(DOMAIN tg.weight) < expected_edges

\* tsp_graph without its self-loops, as a graph with both directions of every edge
TspAsGraph(tg) ==
    [nodes  |-> tg.nodes,
     length |-> [e \in {e \in tg.nodes \X tg.nodes : e[1] # e[2] /\ {e[1], e[2]} \in DOMAIN tg.weight}
                    |-> tg.weight[{e[1], e[2]}]]]

TspConnected(tg) ==
    \A u, v \in tg.nodes : shortest_path_length(TspAsGraph(tg), u, v) # NoPath

\* the path between two nodes of tsp_graph that traveling_salesman_problem
\* expands a tour leg to: the edge itself when no detour is shorter
TspLeg(tg, u, v) ==
    LET sg == TspAsGraph(tg)
    IN IF <<u, v>> \in Edges(sg) /\ sg.length[<<u, v>>] = shortest_path_length(sg, u, v)
       THEN <<u, v>>
       ELSE shortest_path(sg, u, v)

RECURSIVE ExpandTour(_, _)
ExpandTour(tg, tour) ==
    IF Len(tour) <= 1 THEN tour
    ELSE SubSeq(TspLeg(tg, tour[1], tour[2]), 1, Len(TspLeg(tg, tour[1], tour[2])) - 1)
         \o ExpandTour(tg, Tail(tour))

\* line 123: traveling_salesman_problem(tsp_graph, cycle=True): a closed tour
\* through every node of tsp_graph, each once, that starts and ends at a node
\* the solver picks; which tour and which start is the solver's choice
TspTours(tg) ==
    LET n == Cardinality(tg.nodes)
        orders == {p \in [1..n -> tg.nodes] : \A i, j \in 1..n : p[i] = p[j] => i = j}
    IN {ExpandTour(tg, p \o <<p[1]>>) : p \in orders}

\* lines 87-123: up to the solver's answer
SolveTsp ==
    /\ pc = "rp_start"
    /\ LET tg == TspGraph(RpNodes, RpGraph)
       IN IF RpWarehouseNode = NoNode
          THEN pc' = "rp_crashed" /\ UNCHANGED tsp_path
          ELSE IF TspIncomplete(tg)
          THEN pc' = "rp_raised" /\ UNCHANGED tsp_path
          ELSE IF Cardinality(tg.nodes) < 2 \/ ~TspConnected(tg)
          THEN pc' = "rp_crashed" /\ UNCHANGED tsp_path
          ELSE /\ tsp_path' \in TspTours(tg)
               /\ pc' = "rp_rotate"
    /\ UNCHANGED <<inputVars, optVars, planVars, heurVars, clusVars, stitched_path, total_distance>>

\* line 126: tsp_path = tsp_path[1:] + tsp_path[:1]
RotateOnce(path) == Tail(path) \o <<Head(path)>>

\* lines 125-126: one iteration of the while loop
RotateStep ==
    /\ pc = "rp_rotate"
    /\ tsp_path[1] # RpWarehouseNode
    /\ tsp_path' = RotateOnce(tsp_path)
    /\ UNCHANGED <<inputVars, optVars, planVars, heurVars, clusVars, stitched_path, total_distance, pc>>

RECURSIVE StitchLegs(_, _)
\* lines 130-138: path[:-1] of every leg that has a path; a leg without one is skipped
StitchLegs(g, path) ==
    IF Len(path) <= 1 THEN <<>>
    ELSE (IF shortest_path_length(g, path[1], path[2]) # NoPath
          THEN LET leg == shortest_path(g, path[1], path[2])
               IN SubSeq(leg, 1, Len(leg) - 1)
          ELSE <<>>)
         \o StitchLegs(g, Tail(path))

\* lines 128-141: the loop has ended; stitch and return
Stitch ==
    /\ pc = "rp_rotate"
    /\ tsp_path[1] = RpWarehouseNode
    /\ stitched_path' = StitchLegs(RpGraph, tsp_path) \o <<tsp_path[Len(tsp_path)]>>
    /\ total_distance' =
          SumSeq([i \in 1..(Len(tsp_path) - 1) |->
                     IF shortest_path_length(RpGraph, tsp_path[i], tsp_path[i + 1]) # NoPath
                     THEN shortest_path_length(RpGraph, tsp_path[i], tsp_path[i + 1])
                     ELSE 0])
    /\ pc' = "rp_returned"
    /\ UNCHANGED <<inputVars, optVars, planVars, heurVars, clusVars, tsp_path>>

\* every one-way restriction of the corridor
AllRoadNetworks ==
    {[nodes |-> Nodes, length |-> [e \in E |-> 1]] : E \in SUBSET Edges(CorridorGraph)}

\* delivery_points: 1..NumDeliveries deliveries anywhere on the corridor
DeliveryPoints ==
    UNION {{[i \in 1..n |-> [id |-> i, coords |-> c[i], weight_kg |-> 1, volume_m3 |-> 1]] :
               c \in [1..n -> Positions]} : n \in 1..NumDeliveries}

InitTsp ==
    /\ G \in AllRoadNetworks
    /\ vehicles \in {<<[license_plate |-> 1] @@ v>> : v \in HeuristicVehicles}
    /\ deliveries \in DeliveryPoints
    /\ cluster_mapping = <<>>
    /\ zmrc_shape = {NumNodes}
    /\ rodizio_shape = {}
    /\ ver = <<>>
    /\ cluster_queue = <<>>
    /\ readable = ZoneFiles
    /\ HeurIdle /\ TspIdle /\ ClusIdle /\ PlanIdle /\ OptIdle
    /\ pc = "rp_start"

NextTsp ==
    \/ SolveTsp
    \/ RotateStep
    \/ Stitch

SpecTsp == InitTsp /\ [][NextTsp]_vars

\* C5: the path returned by compute_shortest_path_with_restrictions starts
\* and ends at the warehouse node, whatever node the solver's closed cycle
\* started at (stated for the runs in which every two nodes of the cycle are
\* joined by a path in both directions, so that no leg is missing).
C5_TourClosed ==
    (/\ pc = "rp_returned"
     /\ \A u, v \in Range(tsp_path) : shortest_path_length(RpGraph, u, v) # NoPath)
        => /\ stitched_path[1] = RpWarehouseNode
           /\ stitched_path[Len(stitched_path)] = RpWarehouseNode

\* C13: compute_shortest_path_with_restrictions returns a route only when
\* every two nodes among the warehouse node and the delivery nodes are joined
\* by a path in the filtered graph, and the returned route then contains all
\* of them; in every other case it fails.
C13_FailsWhenDisconnected ==
    pc = "rp_returned" =>
        /\ \A u, v \in Range(RpNodes) : shortest_path_length(RpGraph, u, v) # NoPath
        /\ Range(RpNodes) \subseteq Range(stitched_path)

\* lines 125-126: how many rotations bring the node to the head of the list;
\* the length of the list when the node is not in it
RotationsLeft(path, node) ==
    IF node \in Range(path)
    THEN Min({k \in DOMAIN path : path[k] = node}) - 1
    ELSE Len(path)

\* C17: the loop that rotates the solver's cycle to the warehouse node ends
\* on every filtered graph and delivery set: every rotation brings the
\* warehouse node one place nearer to the head of the list, so the call goes
\* on to return a route.
C17_RotationEnds ==
    [][(pc = "rp_rotate" /\ pc' = "rp_rotate")
          => RotationsLeft(tsp_path', RpWarehouseNode)
                 < RotationsLeft(tsp_path, RpWarehouseNode)]_vars

-----------------------------------------------------------------------------
(* assign_clusters_heuristic.py: two_opt_fixed, statement by statement *)

\* lines 81-83
TwoOptEnter ==
    /\ pc = "opt_start"
    /\ opt_best' = opt_route
    /\ opt_best_cost' = path_length(opt_route, G)
    /\ opt_improved' = TRUE
    /\ pc' = "opt_while"
    /\ UNCHANGED <<inputVars, planVars, heurVars, tspVars, clusVars, opt_route, opt_i, opt_j>>

\* lines 84-86: the while test; a new sweep starts with i = 1
TwoOptSweepBegin ==
    /\ pc = "opt_while"
    /\ opt_improved
    /\ opt_improved' = FALSE
    /\ opt_i' = 1
    /\ opt_j' = 2
    /\ pc' = "opt_for"
    /\ UNCHANGED <<inputVars, planVars, heurVars, tspVars, clusVars, opt_route, opt_best, opt_best_cost>>

\* lines 86-95: one step of the two for loops at (i, j)
TwoOptTry ==
    /\ pc = "opt_for"
    /\ opt_i <= Len(opt_best) - 3
    /\ IF opt_j > Len(opt_best) - 2
       THEN /\ opt_i' = opt_i + 1
            /\ opt_j' = opt_i + 2
            /\ UNCHANGED <<opt_best, opt_best_cost, opt_improved>>
       ELSE /\ opt_j' = opt_j + 1
            /\ UNCHANGED opt_i
            /\ IF opt_j - opt_i = 1
               THEN UNCHANGED <<opt_best, opt_best_cost, opt_improved>>
               ELSE LET new_route == ReverseSegment(opt_best, opt_i, opt_j)
                        new_cost  == path_length(new_route, G)
                    IN IF Improves(new_cost, opt_best_cost)
                       THEN /\ opt_best' = new_route
                            /\ opt_best_cost' = new_cost
                            /\ opt_improved' = TRUE
                       ELSE UNCHANGED <<opt_best, opt_best_cost, opt_improved>>
    /\ UNCHANGED <<inputVars, planVars, heurVars, tspVars, clusVars, opt_route, pc>>

\* line 86: the outer for loop is exhausted, back to the while test
TwoOptSweepEnd ==
    /\ pc = "opt_for"
    /\ opt_i > Len(opt_best) - 3
    /\ pc' = "opt_while"
    /\ UNCHANGED <<inputVars, planVars, heurVars, tspVars, clusVars, optVars>>

\* lines 84, 96: the last sweep accepted nothing; return best
TwoOptReturn ==
    /\ pc = "opt_while"
    /\ ~opt_improved
    /\ pc' = "opt_returned"
    /\ UNCHANGED <<inputVars, planVars, heurVars, tspVars, clusVars, optVars>>

\* lines 191-192: [wh_node] + delivery nodes + [wh_node], with up to MaxStops
\* delivery nodes
TwoOptRoutes(g) ==
    LET wh_node == get_nearest_node(g, WAREHOUSE_COORDS)
    IN UNION {{<<wh_node>> \o stops \o <<wh_node>> : stops \in [1..n -> g.nodes]} :
                 n \in 0..MaxStops}

InitTwoOpt ==
    /\ G \in AllRoadNetworks
    /\ vehicles = <<>>
    /\ deliveries = <<>>
    /\ cluster_mapping = <<>>
    /\ zmrc_shape = {}
    /\ rodizio_shape = {}
    /\ ver = <<>>
    /\ cluster_queue = <<>>
    /\ readable = ZoneFiles
    /\ HeurIdle /\ TspIdle /\ ClusIdle /\ PlanIdle
    /\ opt_route \in TwoOptRoutes(G)
    /\ opt_best = <<>>
    /\ opt_best_cost = 0
    /\ opt_improved = FALSE
    /\ opt_i = 0
    /\ opt_j = 0
    /\ pc = "opt_start"

NextTwoOpt ==
    \/ TwoOptEnter
    \/ TwoOptSweepBegin
    \/ TwoOptTry
    \/ TwoOptSweepEnd
    \/ TwoOptReturn

\* the procedure is sequential code: a statement that can run does run
SpecTwoOpt == InitTwoOpt /\ [][NextTwoOpt]_vars /\ WF_vars(NextTwoOpt)

\* C11: every accepted reversal strictly decreases the cost of the current
\* best route, the cost kept in best_cost is the cost of best, and
\* two_opt_fixed returns on every route and graph, after a sweep that
\* accepted nothing.
C11_TwoOptDecreasesAndEnds ==
    /\ [][(pc = "opt_for" /\ opt_best' # opt_best)
            => /\ path_length(opt_best', G) < path_length(opt_best, G)
               /\ opt_best_cost' = path_length(opt_best', G)]_vars
    /\ [](pc = "opt_returned" => ~opt_improved)
    /\ <>(pc = "opt_returned")

\* the procedure returned a route that differs from the one passed in
C11_Witness ==
    /\ pc = "opt_returned"
    /\ opt_best # opt_route
    /\ path_length(opt_best, G) < path_length(opt_route, G)

\* C26: the route two_opt_fixed returns is a local optimum over every
\* reversal of a run of two or more delivery stops, the run that ends at the
\* last stop before the return to the depot included: no such reversal has a
\* strictly smaller path_length.
C26_LocalOptimum ==
    pc = "opt_returned" =>
        \A a, b \in 2..(Len(opt_best) - 1) :
            a < b =>
                path_length([k \in DOMAIN opt_best |->
                                IF a <= k /\ k <= b THEN opt_best[a + b - k] ELSE opt_best[k]],
                            G)
                    >= path_length(opt_best, G)

-----------------------------------------------------------------------------
(* delivery_clustering.py: generate_delivery_clusters *)
(* Lengths are in hundredths of a degree; neighbouring corridor positions  *)
(* are 2 * BUFFER_RADIUS apart, so the buffers of two deliveries overlap   *)
(* only when they share a position, and a geometry is the set of positions *)
(* it covers.                                                              *)

BUFFER_RADIUS == 2
MERGE_DISTANCE == 5
CLUSTER_SIZE_THRESHOLD_RATIO == 8
NoCoords == 0

GridPitch == 2 * BUFFER_RADIUS

RECURSIVE SumSet(_)
SumSet(S) == IF S = {} THEN 0 ELSE LET x == CHOOSE x \in S : TRUE IN x + SumSet(S \ {x})

\* pairwise_distances between two buffer centroids
PointDistance(p, q) == GridPitch * Abs(p - q)

\* a.centroid.distance(b.centroid) as a fraction <<numerator, denominator>>;
\* the centroid of a geometry is the mean of the positions it covers
CentroidDistance(A, B) ==
    <<Abs(SumSet(A) * Cardinality(B) - SumSet(B) * Cardinality(A)),
      Cardinality(A) * Cardinality(B)>>

FracLess(a, b) == a[1] * b[2] < b[1] * a[2]

\* min(candidates, key=...): the position in the list of the first cluster
\* whose centroid is nearest to the geometry
NearestIndex(candidates, clusters, geometry) ==
    LET key(k) == CentroidDistance(geometry, clusters[k].geometry)
    IN Min({k \in candidates :
               /\ \A l \in candidates : ~FracLess(key(l), key(k))})

\* lines 67-73: (idx, point) of every delivery with two coordinates
delivery_points ==
    LET with == SelectSeq([i \in DOMAIN deliveries |-> i],
                          LAMBDA i : deliveries[i].coords # NoCoords)
    IN [k \in DOMAIN with |-> [idx |-> with[k], point |-> deliveries[with[k]].coords]]

\* lines 21-27
detect_zone(point) ==
    IF point \in zmrc_shape THEN "ZMRC"
    ELSE IF point \in rodizio_shape THEN "Rodizio"
    ELSE "None"

\* lines 75-83: inside_zmrc, inside_rodizio, outside
Bucket(zone) == SelectSeq(delivery_points, LAMBDA ip : detect_zone(ip.point) = zone)

\* lines 88-91
min_points_per_cluster ==
    LET total_deliveries == Len(delivery_points)
        share == (total_deliveries * CLUSTER_SIZE_THRESHOLD_RATIO) \div 100
    IN IF share > 3 THEN share ELSE 3

RECURSIVE MergeGroups(_, _, _, _)
\* lines 40-51: the outer loop from i on; a point j > i within the threshold
\* joins the group of i whether or not it is already in a group
MergeGroups(points, distance_threshold, i, assigned) ==
    IF i > Len(points) THEN <<>>
    ELSE IF i \in assigned THEN MergeGroups(points, distance_threshold, i + 1, assigned)
    ELSE LET near == {j \in (i + 1)..Len(points) :
                         PointDistance(points[i], points[j]) < distance_threshold}
         IN <<<<i>> \o SetToSeq(near)>>
            \o MergeGroups(points, distance_threshold, i + 1, assigned \cup {i} \cup near)

\* lines 30-53: the groups, as lists of positions in the input
merge_close_buffers(points, distance_threshold) ==
    MergeGroups(points, distance_threshold, 1, {})

\* lines 93-106: one cluster per group of free deliveries
FreeClusters ==
    LET outside == Bucket("None")
        merged == merge_close_buffers([k \in DOMAIN outside |-> outside[k].point],
                                      MERGE_DISTANCE)
    IN [c \in DOMAIN merged |->
           [id |-> <<"Cluster", c>>,
            geometry |-> {outside[merged[c][k]].point : k \in DOMAIN merged[c]},
            members |-> [k \in DOMAIN merged[c] |-> outside[merged[c][k]].idx],
            requires_zmrc |-> FALSE,
            requires_rodizio |-> FALSE,
            free |-> TRUE]]

\* lines 60-63: gpd.read_file raises when a file cannot be read; nothing
\* catches it
zone_shapes_fail == ~({"ZMRC", "Rodizio"} \subseteq readable)

\* lines 60-108
FormFreeClusters ==
    /\ pc = "cl_start"
    /\ IF zone_shapes_fail
       THEN /\ pc' = "cl_load_failed"
            /\ UNCHANGED all_clusters
       ELSE /\ all_clusters' = FreeClusters
            /\ pc' = "cl_zmrc"
    /\ UNCHANGED <<inputVars, optVars, planVars, heurVars, tspVars, debug_data>>

RECURSIVE Distribute(_, _, _)
\* lines 119-130 and 141-152: every delivery of the bucket joins the free
\* cluster (an entry of cluster_members) with the nearest centroid
Distribute(clusters, bucket, zone) ==
    IF bucket = <<>> THEN clusters
    ELSE LET candidates == {k \in DOMAIN clusters : clusters[k].free}
             p == Head(bucket).point
             k == NearestIndex(candidates, clusters, {p})
         IN Distribute(
                [clusters EXCEPT
                    ![k].geometry = @ \cup {p},
                    ![k].members = Append(@, Head(bucket).idx),
                    ![k].requires_zmrc = @ \/ zone = "ZMRC",
                    ![k].requires_rodizio = @ \/ zone = "Rodizio"],
                Tail(bucket), zone)

\* lines 110-130 and 132-152: a bucket of at least min_points_per_cluster
\* deliveries is one dedicated cluster, a smaller one is distributed
HandleZone(zone, shape, next_pc) ==
    LET inside == Bucket(zone)
    IN IF Len(inside) >= min_points_per_cluster
       THEN /\ all_clusters' = Append(all_clusters,
                   [id |-> <<zone, 0>>,
                    geometry |-> shape,
                    members |-> [k \in DOMAIN inside |-> inside[k].idx],
                    requires_zmrc |-> zone = "ZMRC",
                    requires_rodizio |-> zone = "Rodizio",
                    free |-> FALSE])
            /\ pc' = next_pc
       ELSE IF inside # <<>> /\ \A k \in DOMAIN all_clusters : ~all_clusters[k].free
       THEN \* min() of an empty list raises ValueError
            /\ pc' = "cl_crashed"
            /\ UNCHANGED all_clusters
       ELSE /\ all_clusters' = Distribute(all_clusters, inside, zone)
            /\ pc' = next_pc

\* lines 110-130
HandleZMRC ==
    /\ pc = "cl_zmrc"
    /\ HandleZone("ZMRC", zmrc_shape, "cl_rodizio")
    /\ UNCHANGED <<inputVars, optVars, planVars, heurVars, tspVars, debug_data>>

\* lines 132-152
HandleRodizio ==
    /\ pc = "cl_rodizio"
    /\ HandleZone("Rodizio", rodizio_shape, "cl_merge")
    /\ UNCHANGED <<inputVars, optVars, planVars, heurVars, tspVars, debug_data>>

\* lines 159-163
SmallClusters(clusters) ==
    {k \in DOMAIN clusters : Len(clusters[k].members) < min_points_per_cluster}

\* lines 166-186: the first small cluster is merged into the nearest other
\* cluster and deleted from the dict
MergeSmallest(clusters) ==
    LET c == Min(SmallClusters(clusters))
        t == NearestIndex(DOMAIN clusters \ {c}, clusters, clusters[c].geometry)
        merged == [clusters EXCEPT
                      ![t].geometry = @ \cup clusters[c].geometry,
                      ![t].members = @ \o clusters[c].members,
                      ![t].requires_zmrc = @ \/ clusters[c].requires_zmrc,
                      ![t].requires_rodizio = @ \/ clusters[c].requires_rodizio]
    IN [k \in 1..(Len(clusters) - 1) |-> IF k < c THEN merged[k] ELSE merged[k + 1]]

\* lines 155-187: one round of the while loop that merges a cluster
ForceMergeStep ==
    /\ pc = "cl_merge"
    /\ SmallClusters(all_clusters) # {}
    /\ Len(all_clusters) >= 2
    /\ all_clusters' = MergeSmallest(all_clusters)
    /\ UNCHANGED <<inputVars, optVars, planVars, heurVars, tspVars, debug_data, pc>>

RECURSIVE TableRowsKeepAll(_, _)
\* Mutant: every member of every cluster gets a row
TableRowsKeepAll(clusters, used_ids) ==
    IF clusters = <<>> THEN <<>>
    ELSE LET members == SetToSeq(Range(Head(clusters).members))
         IN [k \in DOMAIN members |-> [delivery_id |-> members[k], cluster_id |-> Head(clusters).id]]
            \o TableRowsKeepAll(Tail(clusters), used_ids \cup Range(members))

RECURSIVE TableRows(_, _)
\* lines 191-197: members = list(set(members)); a row for every member that
\* has none yet
TableRows(clusters, used_ids) ==
    IF clusters = <<>> THEN <<>>
    ELSE LET members == SetToSeq(Range(Head(clusters).members))
             fresh == SelectSeq(members, LAMBDA idx : idx \notin used_ids)
         IN [k \in DOMAIN fresh |-> [delivery_id |-> fresh[k], cluster_id |-> Head(clusters).id]]
            \o TableRows(Tail(clusters), used_ids \cup Range(members))

\* lines 189-219: the force-merge loop has ended; write the membership table
EmitTable ==
    /\ pc = "cl_merge"
    /\ SmallClusters(all_clusters) = {} \/ Len(all_clusters) < 2
    /\ debug_data' = TableRows(all_clusters, {})
    /\ pc' = "cl_done"
    /\ UNCHANGED <<inputVars, optVars, planVars, heurVars, tspVars, all_clusters>>

\* deliveries.json: 1..NumPoints deliveries, each on the corridor or without coordinates
ClusterInputs ==
    UNION {{[i \in 1..n |-> [id |-> i, coords |-> c[i], weight_kg |-> 1, volume_m3 |-> 1]] :
               c \in [1..n -> Positions \cup {NoCoords}]} : n \in 1..NumPoints}

InitCluster ==
    /\ G = CorridorGraph
    /\ vehicles = <<>>
    /\ deliveries \in ClusterInputs
    /\ cluster_mapping = <<>>
    /\ zmrc_shape \in ZoneShapes
    /\ rodizio_shape \in ZoneShapes
    /\ ver = <<>>
    /\ cluster_queue = <<>>
    /\ readable = ZoneFiles
    /\ HeurIdle /\ TspIdle /\ ClusIdle /\ PlanIdle /\ OptIdle
    /\ pc = "cl_start"

NextCluster ==
    \/ FormFreeClusters
    \/ HandleZMRC
    \/ HandleRodizio
    \/ ForceMergeStep
    \/ EmitTable

SpecCluster == InitCluster /\ [][NextCluster]_vars

TableClusterIds == {debug_data[k].cluster_id : k \in DOMAIN debug_data}

RowsOf(cluster_id) == {k \in DOMAIN debug_data : debug_data[k].cluster_id = cluster_id}

\* C8: the emitted membership table holds every delivery that has
\* coordinates in exactly one row (and no other delivery), so the clusters of
\* the table are pairwise disjoint and cover the clustered deliveries once.
C8_TablePartitions ==
    pc = "cl_done" =>
        \A i \in DOMAIN deliveries :
            Cardinality({k \in DOMAIN debug_data : debug_data[k].delivery_id = i})
                = IF deliveries[i].coords # NoCoords THEN 1 ELSE 0

\* a table was written from clusters two of which share a member
C8_Witness ==
    /\ pc = "cl_done"
    /\ \E a, b \in DOMAIN all_clusters :
          a # b /\ Range(all_clusters[a].members) \cap Range(all_clusters[b].members) # {}

\* C9: in the emitted table every cluster has at least
\* min_points_per_cluster distinct members, unless it is the only cluster.
C9_ClustersReachMinimum ==
    pc = "cl_done" =>
        \A c \in TableClusterIds :
            \/ Cardinality(RowsOf(c)) >= min_points_per_cluster
            \/ TableClusterIds = {c}

\* C24: the groups merge_close_buffers returns for the free deliveries are
\* pairwise disjoint, hold no index twice, and together hold every free
\* delivery: a delivery placed in an earlier group is in no later one.
C24_GroupsDisjoint ==
    pc = "cl_zmrc" =>
        /\ \A a, b \in DOMAIN all_clusters :
              a # b => Range(all_clusters[a].members) \cap Range(all_clusters[b].members) = {}
        /\ \A a \in DOMAIN all_clusters :
              Cardinality(Range(all_clusters[a].members)) = Len(all_clusters[a].members)
        /\ UNION {Range(all_clusters[a].members) : a \in DOMAIN all_clusters}
              = {Bucket("None")[k].idx : k \in DOMAIN Bucket("None")}

\* C25: clustering never stops in the zone handling, and at the moment both
\* zones have been handled, for each zone: a bucket of at least min_points_per_cluster
\* deliveries is one dedicated cluster flagged for the zone, and otherwise
\* every delivery of the bucket is a member of a free cluster flagged for
\* the zone.
C25_ZoneBucketsPlaced ==
    /\ [](pc # "cl_crashed")
    /\ [][(pc = "cl_rodizio" /\ pc' = "cl_merge") =>
             \A zone \in {"ZMRC", "Rodizio"} :
                 LET inside == Bucket(zone)
                     ids == {inside[k].idx : k \in DOMAIN inside}
                     flagged(c) == IF zone = "ZMRC" THEN c.requires_zmrc
                                   ELSE c.requires_rodizio
                 IN IF Len(inside) >= min_points_per_cluster
                    THEN \E a \in DOMAIN all_clusters' :
                            /\ ~all_clusters'[a].free
                            /\ Range(all_clusters'[a].members) = ids
                            /\ flagged(all_clusters'[a])
                    ELSE \A i \in ids : \E a \in DOMAIN all_clusters' :
                            /\ all_clusters'[a].free
                            /\ i \in Range(all_clusters'[a].members)
                            /\ flagged(all_clusters'[a])]_vars

-----------------------------------------------------------------------------
(* Specification of filtering alone: one vehicle, every zone layout *)

VerRows == [shape : ZoneShapes \ {{}}, vuc_prohibited : BOOLEAN]

VerTables == UNION {[1..k -> VerRows] : k \in 0..MaxVerAreas}

VehicleTypes == {"Truck", "VUC", "Van"}

FilterVehicles ==
    [license_plate : {1}, type : VehicleTypes, has_aetc : BOOLEAN,
     max_weight_kg : {MaxLoad}, length_m : {1}, width_m : {1}, height_m : {1},
     allowed_in_zmrc : BOOLEAN, allowed_in_rodizio : BOOLEAN]

InitFilter ==
    /\ G = CorridorGraph
    /\ vehicles \in {<<v>> : v \in FilterVehicles}
    /\ zmrc_shape \in ZoneShapes
    /\ rodizio_shape \in ZoneShapes
    /\ ver \in VerTables
    /\ deliveries = <<>>
    /\ cluster_mapping = <<>>
    /\ cluster_queue = <<>>
    /\ readable = ZoneFiles
    /\ HeurIdle /\ TspIdle /\ ClusIdle /\ PlanIdle /\ OptIdle
    /\ pc = "start"

NextFilter == PrepareGraphs

SpecFilter == InitFilter /\ [][NextFilter]_vars

-----------------------------------------------------------------------------
(* C7: zone exclusion *)

\* a vehicle is not permitted in ZMRC / the Rodizio zone when its permission
\* flag says so; in a VER area when the area's own description forbids its class
VerForbids(vehicle, row) ==
    \/ vehicle.type = "Truck"
    \/ vehicle.type = "VUC" /\ row.vuc_prohibited

ForbiddenPositions(vehicle) ==
    (IF ~vehicle.allowed_in_zmrc THEN zmrc_shape ELSE {})
    \cup (IF ~vehicle.allowed_in_rodizio THEN rodizio_shape ELSE {})
    \cup UNION {IF VerForbids(vehicle, ver[k]) THEN ver[k].shape ELSE {} :
                   k \in 1..Len(ver)}

\* C7: for every vehicle and every restricted zone (ZMRC, each VER area, the
\* Rodizio zone) the vehicle is not permitted to enter under that zone's own
\* rule, the vehicle's filtered graph has no node inside the zone.
C7_ZoneExclusion ==
    pc = "primary" =>
        \A i \in DOMAIN vehicles :
            \A n \in G_vehicles[vehicles[i].license_plate].nodes :
                NodeX(n) \notin ForbiddenPositions(vehicles[i])

-----------------------------------------------------------------------------
(* Claims about assign_clusters_heuristic *)

DeliveryIds == {deliveries[i].id : i \in DOMAIN deliveries}

\* how many entries of the assignment map hold delivery did
Count(did) ==
    SumSeq([k \in DOMAIN assignments_final |->
               Cardinality({j \in DOMAIN assignments_final[k].deliveries :
                               assignments_final[k].deliveries[j].delivery = did})])

AssignedIds == {did \in DeliveryIds : Count(did) > 0}

WarehouseNode(vehicle) == get_nearest_node(G_vehicles[vehicle.license_plate], WAREHOUSE_COORDS)

\* C1: in the returned map, for every vehicle the total weight of the
\* deliveries on all its routes is at most max_weight_kg and their total
\* volume at most length_m x width_m x height_m.
C1_CapacityRespected ==
    pc = "done" =>
        \A i \in DOMAIN vehicles :
            LET mine(k) == assignments_final[k].vehicle.license_plate = vehicles[i].license_plate
                weight == SumSeq([k \in DOMAIN assignments_final |->
                              IF mine(k) THEN RouteWeight(assignments_final[k]) ELSE 0])
                volume == SumSeq([k \in DOMAIN assignments_final |->
                              IF mine(k) THEN RouteVolume(assignments_final[k]) ELSE 0])
            IN /\ weight <= vehicles[i].max_weight_kg
               /\ volume <= VolumeCapacity(vehicles[i])

\* C2: at every point no delivery id is held by more than one entry of the
\* assignment map (two routes, or twice in one route), and a delivery the
\* leftover pass has dealt with is on exactly one route unless it was
\* reported as not reassigned, and then on none.
C2_NoDeliveryTwice ==
    /\ \A did \in DeliveryIds : Count(did) <= 1
    /\ pc \in {"leftover", "done"} =>
          \A did \in DeliveryIds \ (used_deliveries \cup Range(unassigned)) :
              Count(did) = IF did \in warned THEN 0 ELSE 1

\* two routes exist and a leftover was attached to one of them
C2_Witness ==
    /\ pc = "done"
    /\ Len(assignments_final) >= 2
    /\ \E k \in DOMAIN assignments_final : \E j \in DOMAIN assignments_final[k].deliveries :
          /\ assignments_final[k].deliveries[j].cluster_id = Reassigned
          /\ Cardinality(Admitting(deliveries_dict(assignments_final[k].deliveries[j].delivery))) >= 1

\* C3: at the end every input delivery is on exactly one route or was
\* reported as not reassigned, never both and never neither; the two counts
\* add up to the number of input deliveries.
C3_CoverageAccounting ==
    pc = "done" =>
        /\ \A did \in DeliveryIds : Count(did) + (IF did \in warned THEN 1 ELSE 0) = 1
        /\ Cardinality(AssignedIds) + Cardinality(warned) = Len(deliveries)

\* a run in which a route construction failed, a route was recorded, a
\* leftover was attached and another delivery was reported
C3_Witness ==
    /\ pc = "done"
    /\ assignments_final # <<>>
    /\ warned # {}
    /\ \E k \in DOMAIN assignments_final : \E j \in DOMAIN assignments_final[k].deliveries :
          assignments_final[k].deliveries[j].cluster_id = Reassigned
    /\ Len(assignments_final) < Cardinality(DOMAIN cluster_mapping)

\* C4: every stored path has the vehicle's depot node as its first and as
\* its last element.
C4_PathClosed ==
    \A k \in DOMAIN assignments_final :
        LET r == assignments_final[k]
        IN /\ r.path[1] = WarehouseNode(r.vehicle)
           /\ r.path[Len(r.path)] = WarehouseNode(r.vehicle)

\* C6: the stored path of every route contains the nearest graph node of
\* every delivery in the route's deliveries list.
C6_PathVisitsDeliveries ==
    pc = "done" =>
        \A k \in DOMAIN assignments_final :
            LET r == assignments_final[k]
            IN \A j \in DOMAIN r.deliveries :
                  get_nearest_node(G_vehicles[r.vehicle.license_plate],
                                   deliveries_dict(r.deliveries[j].delivery).coords)
                      \in Range(r.path)

\* C14: a route recorded by the primary pass holds no delivery whose node
\* has no path from the depot node in the vehicle's filtered graph: when a
\* member of the cluster is unreachable the construction is aborted and
\* nothing is recorded.
C14_AbortOnUnreachable ==
    \A k \in DOMAIN assignments_final :
        LET r == assignments_final[k]
            G_vehicle == G_vehicles[r.vehicle.license_plate]
        IN \A j \in DOMAIN r.deliveries :
              r.deliveries[j].cluster_id # Reassigned =>
                  shortest_path_length(G_vehicle, WarehouseNode(r.vehicle),
                      get_nearest_node(G_vehicle,
                          deliveries_dict(r.deliveries[j].delivery).coords)) # NoPath

\* C20: every step of the leftover pass takes the next unassigned delivery
\* and appends it to the first route, in creation order, whose vehicle has a
\* node to reach it by and whose load (the weights and volumes of everything
\* already on the route, leftovers attached earlier included) leaves room
\* for it; no other route changes.  When no route qualifies no route changes
\* and the delivery is reported.
C20_LeftoverFirstFit ==
    [][(pc = "leftover" /\ unassigned # <<>> /\ unassigned' = Tail(unassigned)) =>
          LET did == Head(unassigned)
              d == deliveries_dict(did)
              load(k, f) == SumSeq([j \in DOMAIN assignments_final[k].deliveries |->
                               deliveries_dict(assignments_final[k].deliveries[j].delivery)[f]])
              fits(k) == LET v == assignments_final[k].vehicle
                         IN /\ G_vehicles[v.license_plate].nodes # {}
                            /\ load(k, "weight_kg") + d.weight_kg <= v.max_weight_kg
                            /\ load(k, "volume_m3") + d.volume_m3
                                  <= v.length_m * v.width_m * v.height_m
              routes == {k \in DOMAIN assignments_final : fits(k)}
          IN IF routes = {}
             THEN /\ assignments_final' = assignments_final
                  /\ warned' = warned \cup {did}
             ELSE /\ warned' = warned
                  /\ DOMAIN assignments_final' = DOMAIN assignments_final
                  /\ \A k \in DOMAIN assignments_final :
                        assignments_final'[k] =
                            IF k = Min(routes)
                            THEN [assignments_final[k] EXCEPT !.deliveries =
                                     Append(@, [delivery |-> did, cluster_id |-> Reassigned])]
                            ELSE assignments_final[k]]_vars

\* a route's last delivery is a leftover, and a later leftover that would
\* have fitted the route without it was reported
C20_Witness ==
    /\ pc = "done"
    /\ \E k \in DOMAIN assignments_final : \E did \in warned :
          LET r == assignments_final[k]
              n == Len(r.deliveries)
              before == [j \in 1..(n - 1) |-> deliveries_dict(r.deliveries[j].delivery)]
              d == deliveries_dict(did)
          IN /\ n >= 2
             /\ r.deliveries[n].cluster_id = Reassigned
             /\ r.deliveries[n].delivery < did
             /\ G_vehicles[r.vehicle.license_plate].nodes # {}
             /\ SumSeq([j \in DOMAIN before |-> before[j].weight_kg]) + d.weight_kg
                   <= r.vehicle.max_weight_kg
             /\ SumSeq([j \in DOMAIN before |-> before[j].volume_m3]) + d.volume_m3
                   <= r.vehicle.length_m * r.vehicle.width_m * r.vehicle.height_m

\* C21: the vehicle of a route recorded by the primary pass is, among the
\* candidates (the vehicles that reach every member of the cluster) with the
\* least score, one that no other such candidate exceeds in
\* (max_weight_kg, volume capacity), in whatever order the fleet was given.
C21_LargestCandidateChosen ==
    [][(pc = "primary" /\ Len(assignments_final') = Len(assignments_final) + 1) =>
          LET cluster_deliveries == ClusterDeliveries(Head(cluster_queue))
              chosen == assignments_final'[Len(assignments_final')].vehicle
              reaches(i) == \A k \in DOMAIN cluster_deliveries :
                               G_vehicles[vehicles[i].license_plate].nodes # {}
              score(i) == Abs(WAREHOUSE_COORDS - deliveries_dict(cluster_deliveries[1]).coords)
              least == {i \in DOMAIN vehicles :
                           /\ reaches(i)
                           /\ \A j \in DOMAIN vehicles : reaches(j) => score(i) <= score(j)}
              volume(v) == v.length_m * v.width_m * v.height_m
              smaller(a, b) == \/ a.max_weight_kg < b.max_weight_kg
                               \/ /\ a.max_weight_kg = b.max_weight_kg
                                  /\ volume(a) < volume(b)
          IN \A i \in least : ~smaller(chosen, vehicles[i])]_vars

\* C23: all through the primary pass the delivery ids marked used are
\* exactly the ids held by the recorded routes: a step that records a route
\* records one route and marks its deliveries, and a step that records none
\* (the route construction failed, or the cluster was skipped) leaves the
\* marks as they were.
C23_UsedMatchesAssignments ==
    /\ [](pc = "primary" =>
             used_deliveries =
                 UNION {{assignments_final[n].deliveries[k].delivery :
                            k \in DOMAIN assignments_final[n].deliveries} :
                        n \in DOMAIN assignments_final})
    /\ [][pc = "primary" /\ pc' = "primary" =>
             \/ /\ assignments_final' = assignments_final
                /\ used_deliveries' = used_deliveries
             \/ /\ Len(assignments_final') = Len(assignments_final) + 1
                /\ SubSeq(assignments_final', 1, Len(assignments_final)) = assignments_final
                /\ used_deliveries' # used_deliveries]_vars

\* the primary pass has ended with a route recorded for one cluster and the
\* marks of another cluster, whose route construction failed, removed again
C23_Witness ==
    /\ pc = "primary"
    /\ cluster_queue = <<>>
    /\ assignments_final # <<>>
    /\ \A i \in DOMAIN vehicles : G_vehicles[vehicles[i].license_plate].nodes # {}
    /\ \E c \in DOMAIN cluster_mapping : Range(cluster_mapping[c]) \cap used_deliveries = {}

\* C28: a step of the leftover pass adds no route and removes none, leaves
\* the vehicle, path and distance_m of every route as they were, and changes
\* a deliveries list only by appending to it; a run whose primary pass
\* recorded no route ends with no route and every delivery reported.
C28_LeftoverOnlyAppends ==
    /\ [][pc = "leftover" =>
             /\ Len(assignments_final') = Len(assignments_final)
             /\ \A n \in DOMAIN assignments_final :
                   /\ assignments_final'[n].vehicle = assignments_final[n].vehicle
                   /\ assignments_final'[n].path = assignments_final[n].path
                   /\ assignments_final'[n].distance_m = assignments_final[n].distance_m
                   /\ Len(assignments_final'[n].deliveries) >= Len(assignments_final[n].deliveries)
                   /\ SubSeq(assignments_final'[n].deliveries, 1,
                             Len(assignments_final[n].deliveries))
                         = assignments_final[n].deliveries]_vars
    /\ []((pc = "done" /\ assignments_final = <<>>) =>
             warned = {deliveries[i].id : i \in DOMAIN deliveries})

\* the pass ended with two routes, one that took a leftover and one that did not
C28_Witness ==
    /\ pc = "done"
    /\ Len(assignments_final) = 2
    /\ \E n, m \in DOMAIN assignments_final :
          /\ \E k \in DOMAIN assignments_final[n].deliveries :
                assignments_final[n].deliveries[k].cluster_id = Reassigned
          /\ \A k \in DOMAIN assignments_final[m].deliveries :
                assignments_final[m].deliveries[k].cluster_id # Reassigned

-----------------------------------------------------------------------------
(* The rotation scenario: a fleet of one vehicle and a Rodizio zone *)

\* utils/config.py
DELIVERY_DAY == "Tuesday"

\* restrictions.json, rodizio_municipal.plate_restrictions, which
\* enrich_truck_geojson copies onto the Rodizio feature: the last plate
\* digits kept out of the zone on each weekday
plate_restrictions ==
    [Monday |-> {1, 2}, Tuesday |-> {3, 4}, Wednesday |-> {5, 6},
     Thursday |-> {7, 8}, Friday |-> {9, 0}]

\* fleets of one vehicle; its plate ends in 3 (kept out on Tuesday) or in 5
RotationFleets ==
    {<<[license_plate |-> p, allowed_in_rodizio |-> ~(p \in plate_restrictions[DELIVERY_DAY])] @@ v>> :
        p \in {3, 5}, v \in HeuristicVehicles}

InitRotation ==
    /\ G \in RoadNetworks
    /\ vehicles \in RotationFleets
    /\ deliveries \in {ds \in DeliverySets : \A i \in DOMAIN ds : ds[i].weight_kg = 1}
    /\ cluster_mapping \in ClusterTables
    /\ zmrc_shape = {}
    /\ rodizio_shape \in ZoneShapes \ {{}, {WAREHOUSE_COORDS}}
    /\ ver = <<>>
    /\ cluster_queue = SetToSeq(DOMAIN cluster_mapping)
    /\ readable = ZoneFiles
    /\ HeurIdle /\ TspIdle /\ ClusIdle /\ PlanIdle /\ OptIdle
    /\ pc = "start"

SpecRotation == InitRotation /\ [][Next]_vars

\* C12: with a fleet of one vehicle whose last plate digit is restricted on
\* the delivery day, a delivery inside the Rodizio zone is on no route at any
\* point of the run and is reported as not reassigned at the end.
C12_RotationLeavesUnassigned ==
    (/\ Len(vehicles) = 1
     /\ (vehicles[1].license_plate % 10) \in plate_restrictions[DELIVERY_DAY]) =>
        \A i \in DOMAIN deliveries :
            deliveries[i].coords \in rodizio_shape =>
                /\ Count(deliveries[i].id) = 0
                /\ pc = "done" => deliveries[i].id \in warned

-----------------------------------------------------------------------------
(* The depot scenario: the warehouse lies inside ZMRC *)

InitDepot ==
    /\ G \in RoadNetworks
    /\ vehicles \in Fleets
    /\ deliveries \in {ds \in DeliverySets : \A i \in DOMAIN ds : ds[i].weight_kg = 1}
    /\ cluster_mapping \in ClusterTables
    /\ zmrc_shape = {WAREHOUSE_COORDS}
    /\ rodizio_shape = {}
    /\ ver = <<>>
    /\ cluster_queue = SetToSeq(DOMAIN cluster_mapping)
    /\ readable = ZoneFiles
    /\ HeurIdle /\ TspIdle /\ ClusIdle /\ PlanIdle /\ OptIdle
    /\ pc = "start"

SpecDepot == InitDepot /\ [][Next]_vars

\* the node of the road graph nearest to the warehouse
DepotNode == get_nearest_node(G, WAREHOUSE_COORDS)

\* C15: when the depot node is in no vehicle's filtered graph, no route is
\* recorded (the run gives up instead of taking another node for the depot).
C15_AbortWithoutDepot ==
    (/\ pc # "start"
     /\ \A i \in DOMAIN vehicles : DepotNode \notin G_vehicles[vehicles[i].license_plate].nodes)
        => assignments_final = <<>>

-----------------------------------------------------------------------------
(* Zone files that may fail to load *)

InitZoneLoad ==
    /\ G = CorridorGraph
    /\ vehicles \in {<<[license_plate |-> 1] @@ v>> : v \in HeuristicVehicles}
    /\ deliveries \in ClusterInputs
    /\ cluster_mapping = <<>>
    /\ zmrc_shape \in ZoneShapes
    /\ rodizio_shape \in ZoneShapes
    /\ ver = <<>>
    /\ readable \in SUBSET ZoneFiles
    /\ cluster_queue = <<>>
    /\ HeurIdle /\ TspIdle /\ ClusIdle /\ PlanIdle /\ OptIdle
    /\ pc \in {"cl_start", "start"}

\* main.py runs the clustering, then the assignment
NextZoneLoad ==
    \/ NextCluster
    \/ PrepareGraphs

SpecZoneLoad == InitZoneLoad /\ [][NextZoneLoad]_vars

\* C16: a zone file that cannot be loaded does not stop the clustering or
\* the assignment: neither ends in the uncaught exception of the load.
C16_ZoneLoadFailureTolerated ==
    readable # ZoneFiles => pc \notin {"cl_load_failed", "load_failed"}

-----------------------------------------------------------------------------
(* route_planner.py: assign_clusters_to_routes *)

\* lines 188-192 and 251-258: the sort key (max_weight_kg, volume)
VehicleKeyLess(a, b) ==
    \/ a.max_weight_kg < b.max_weight_kg
    \/ a.max_weight_kg = b.max_weight_kg /\ VolumeCapacity(a) < VolumeCapacity(b)

\* lines 188-192: sorted(vehicles, key=..., reverse=True), a new list; the
\* sort is stable, so vehicles with equal keys keep the order of the fleet
SortedVehicles(vs) ==
    LET rank(i) == 1 + Cardinality({j \in DOMAIN vs : VehicleKeyLess(vs[i], vs[j])})
                     + Cardinality({j \in 1..(i - 1) : /\ ~VehicleKeyLess(vs[i], vs[j])
                                                        /\ ~VehicleKeyLess(vs[j], vs[i])})
    IN [k \in DOMAIN vs |-> vs[CHOOSE i \in DOMAIN vs : rank(i) = k]]

\* line 171: deliveries_dict, over the records in memory
RecordOf(did) == CHOOSE d \in Range(delivery_records) : d.id = did

\* lines 330-340
can_vehicle_reach_all_deliveries(g, vehicle, cluster_deliveries) ==
    LET G_vehicle == filter_graph_for_vehicle_rp(g, vehicle)
    IN \A k \in DOMAIN cluster_deliveries :
           get_nearest_node(G_vehicle, RecordOf(cluster_deliveries[k]).coords) # NoNode

RECURSIVE RotateToWarehouse(_, _)
\* lines 125-126: the while loop, for a cycle that holds the warehouse node
RotateToWarehouse(path, warehouse_node) ==
    IF path[1] = warehouse_node THEN path
    ELSE RotateToWarehouse(RotateOnce(path), warehouse_node)

\* lines 128-139: total_distance, the sum of the legs that have a path
StitchedDistance(g, path) ==
    SumSeq([i \in 1..(Len(path) - 1) |->
               IF shortest_path_length(g, path[i], path[i + 1]) # NoPath
               THEN shortest_path_length(g, path[i], path[i + 1])
               ELSE 0])

\* lines 83-141: every outcome of one call.  "returned" carries the path and
\* the distance; "raised" is the ValueError of line 120; "crashed" is any
\* other exception; "hung" is the while loop of line 125 on a cycle without
\* the warehouse node
compute_shortest_path_with_restrictions(g, cluster_deliveries, vehicle) ==
    LET G_vehicle == filter_graph_for_vehicle_rp(g, vehicle)
        warehouse_node == get_nearest_node(G_vehicle, WAREHOUSE_COORDS)
        found == SelectSeq(cluster_deliveries,
                    LAMBDA did : get_nearest_node(G_vehicle, RecordOf(did).coords) # NoNode)
        nodes == <<warehouse_node>>
                 \o [k \in DOMAIN found |-> get_nearest_node(G_vehicle, RecordOf(found[k]).coords)]
        tg == TspGraph(nodes, G_vehicle)
        none(kind) == {[kind |-> kind, path |-> <<>>, distance |-> 0]}
    IN IF warehouse_node = NoNode THEN none("crashed")
       ELSE IF TspIncomplete(tg) THEN none("raised")
       ELSE IF Cardinality(tg.nodes) < 2 \/ ~TspConnected(tg) THEN none("crashed")
       ELSE IF warehouse_node \notin tg.nodes THEN none("hung")
       ELSE {LET path == RotateToWarehouse(t, warehouse_node)
             IN [kind |-> "returned",
                 path |-> StitchLegs(G_vehicle, path) \o <<path[Len(path)]>>,
                 distance |-> StitchedDistance(G_vehicle, path)] : t \in TspTours(tg)}

\* line 341: threshold=1.5, as the fraction 3/2
EFFICIENCY_THRESHOLD_NUM == 3
EFFICIENCY_THRESHOLD_DEN == 2

\* lines 349-350: the sum of the straight-line distances warehouse - delivery
StraightDistance(cluster_deliveries) ==
    SumSeq([k \in DOMAIN cluster_deliveries |->
               Abs(WAREHOUSE_COORDS - RecordOf(cluster_deliveries[k]).coords)])

\* lines 352-361: the sum of the legs of the path that have a path in g
RealDistance(g, path_nodes) ==
    SumSeq([i \in 1..(Len(path_nodes) - 1) |->
               IF /\ path_nodes[i] \in g.nodes
                  /\ path_nodes[i + 1] \in g.nodes
                  /\ shortest_path_length(g, path_nodes[i], path_nodes[i + 1]) # NoPath
               THEN shortest_path_length(g, path_nodes[i], path_nodes[i + 1])
               ELSE 0])

\* line 366: the division raises ZeroDivisionError when every delivery of a
\* cluster of two or more is at the warehouse
validate_route_efficiency_raises(g, cluster_deliveries, path_nodes) ==
    /\ Len(cluster_deliveries) >= 2
    /\ RealDistance(g, path_nodes) # 0
    /\ StraightDistance(cluster_deliveries) = 0

\* lines 341-368
validate_route_efficiency(g, cluster_deliveries, path_nodes) ==
    IF Len(cluster_deliveries) < 2 THEN TRUE
    ELSE IF RealDistance(g, path_nodes) = 0 THEN FALSE
    ELSE RealDistance(g, path_nodes) * EFFICIENCY_THRESHOLD_DEN
            <= StraightDistance(cluster_deliveries) * EFFICIENCY_THRESHOLD_NUM

RECURSIVE TryVehicles(_, _, _, _)
\* lines 204-229: the vehicles from position k of the sorted list on; the
\* first one that reaches the cluster, gets a route and passes the
\* efficiency test takes it.  vehicle is its position in the sorted list
TryVehicles(g, vs, cluster_deliveries, k) ==
    IF k > Len(vs)
    THEN {[kind |-> "unassigned", vehicle |-> 0, path |-> <<>>, distance |-> 0]}
    ELSE IF ~can_vehicle_reach_all_deliveries(g, vs[k], cluster_deliveries)
    THEN TryVehicles(g, vs, cluster_deliveries, k + 1)
    ELSE UNION {
            IF o.kind = "raised"
            THEN TryVehicles(g, vs, cluster_deliveries, k + 1)
            ELSE IF o.kind # "returned"
            THEN {[kind |-> o.kind, vehicle |-> k, path |-> <<>>, distance |-> 0]}
            ELSE IF validate_route_efficiency_raises(g, cluster_deliveries, o.path)
            THEN {[kind |-> "crashed", vehicle |-> k, path |-> <<>>, distance |-> 0]}
            ELSE IF ~validate_route_efficiency(g, cluster_deliveries, o.path)
            THEN TryVehicles(g, vs, cluster_deliveries, k + 1)
            ELSE {[kind |-> "assigned", vehicle |-> k, path |-> o.path,
                   distance |-> o.distance]}
            : o \in compute_shortest_path_with_restrictions(g, cluster_deliveries, vs[k])}

\* lines 232-233: d["cluster_id"] = f"Reassigned from {cluster_id}", written
\* into the record of every delivery of the cluster
MarkReassigned(records, cluster_deliveries, cluster_id) ==
    [i \in DOMAIN records |->
        IF records[i].id \in Range(cluster_deliveries)
        THEN [f \in DOMAIN records[i] \cup {"cluster_id"} |->
                 IF f = "cluster_id" THEN <<"Reassigned from", cluster_id>>
                 ELSE records[i][f]]
        ELSE records[i]]

\* lines 198-234: one iteration of the loop over the clusters
PlanCluster ==
    /\ pc = "plan_clusters"
    /\ cluster_queue # <<>>
    /\ LET cluster_id == Head(cluster_queue)
           cluster_deliveries == ClusterDeliveries(cluster_id)
           sorted == SortedVehicles(vehicles)
       IN IF cluster_deliveries = <<>>
          THEN UNCHANGED <<used_deliveries, assignments_final, planVars, pc>>
          ELSE \E o \in TryVehicles(G, sorted, cluster_deliveries, 1) :
                  IF o.kind = "assigned"
                  THEN /\ assignments_final' = Append(assignments_final,
                             [vehicle |-> sorted[o.vehicle],
                              path |-> o.path,
                              distance_m |-> o.distance,
                              deliveries |-> [k \in DOMAIN cluster_deliveries |->
                                  [delivery |-> cluster_deliveries[k],
                                   cluster_id |-> <<"Cluster", cluster_id>>]]])
                       /\ used_deliveries' = used_deliveries \cup Range(cluster_deliveries)
                       /\ UNCHANGED <<planVars, pc>>
                  ELSE IF o.kind = "unassigned"
                  THEN /\ delivery_records' =
                              MarkReassigned(delivery_records, cluster_deliveries, cluster_id)
                       /\ pending_deliveries' = pending_deliveries \o cluster_deliveries
                       /\ UNCHANGED <<used_deliveries, assignments_final, pc>>
                  ELSE /\ pc' = (IF o.kind = "hung" THEN "plan_hung" ELSE "plan_crashed")
                       /\ UNCHANGED <<used_deliveries, assignments_final, planVars>>
    /\ cluster_queue' = Tail(cluster_queue)
    /\ UNCHANGED <<inputVars, optVars, tspVars, clusVars, G_vehicles, unassigned, warned>>

RECURSIVE PackVehicle(_, _, _, _, _)
\* lines 270-289: the pending deliveries, in order, that are not yet used and
\* still fit the vehicle
PackVehicle(vehicle, deliveries_list, used, used_weight, used_volume) ==
    IF deliveries_list = <<>> THEN <<>>
    ELSE LET delivery == RecordOf(Head(deliveries_list))
         IN IF /\ delivery.id \notin used
               /\ used_weight + delivery.weight_kg <= vehicle.max_weight_kg
               /\ used_volume + delivery.volume_m3 <= VolumeCapacity(vehicle)
            THEN <<delivery.id>>
                 \o PackVehicle(vehicle, Tail(deliveries_list), used,
                                used_weight + delivery.weight_kg,
                                used_volume + delivery.volume_m3)
            ELSE PackVehicle(vehicle, Tail(deliveries_list), used, used_weight, used_volume)

RECURSIVE RemainingRoutes(_, _, _, _, _, _)
\* lines 263-318: the loop over the sorted vehicles from position k on;
\* routes are the routes recorded so far, used the ids packed so far
RemainingRoutes(g, vs, deliveries_list, k, used, routes) ==
    IF k > Len(vs)
    THEN {[kind |-> "returned", routes |-> routes, used |-> used]}
    ELSE LET assigned_deliveries == PackVehicle(vs[k], deliveries_list, used, 0, 0)
             used_now == used \cup Range(assigned_deliveries)
         IN IF assigned_deliveries = <<>>
            THEN RemainingRoutes(g, vs, deliveries_list, k + 1, used, routes)
            ELSE UNION {
                    IF o.kind = "raised"
                    THEN RemainingRoutes(g, vs, deliveries_list, k + 1, used_now, routes)
                    ELSE IF o.kind # "returned"
                    THEN {[kind |-> o.kind, routes |-> routes, used |-> used_now]}
                    ELSE LET extended == Append(routes,
                                 [vehicle |-> vs[k],
                                  path |-> o.path,
                                  distance_m |-> o.distance,
                                  deliveries |-> [i \in DOMAIN assigned_deliveries |->
                                      [delivery |-> assigned_deliveries[i],
                                       cluster_id |-> RecordOf(assigned_deliveries[i]).cluster_id]]])
                         IN IF Cardinality(used_now) = Len(deliveries_list)
                            THEN {[kind |-> "returned", routes |-> extended, used |-> used_now]}
                            ELSE RemainingRoutes(g, vs, deliveries_list, k + 1, used_now, extended)
                    : o \in compute_shortest_path_with_restrictions(g, assigned_deliveries, vs[k])}

\* lines 244-327
assign_remaining_deliveries_to_vehicles(g, vs, remaining_deliveries) ==
    RemainingRoutes(g, SortedVehicles(vs), remaining_deliveries, 1, {}, <<>>)

\* lines 236-241: the pending deliveries go to
\* assign_remaining_deliveries_to_vehicles and its routes join the
\* assignments; warned holds the deliveries it counts as not assigned
PlanReturn ==
    /\ pc = "plan_clusters"
    /\ cluster_queue = <<>>
    /\ IF pending_deliveries = <<>>
       THEN /\ pc' = "plan_returned"
            /\ UNCHANGED <<assignments_final, warned>>
       ELSE \E o \in assign_remaining_deliveries_to_vehicles(
                         G, SortedVehicles(vehicles), pending_deliveries) :
               IF o.kind = "returned"
               THEN /\ assignments_final' = assignments_final \o o.routes
                    /\ warned' = Range(pending_deliveries) \ o.used
                    /\ pc' = "plan_returned"
               ELSE /\ pc' = (IF o.kind = "hung" THEN "plan_hung" ELSE "plan_crashed")
                    /\ UNCHANGED <<assignments_final, warned>>
    /\ UNCHANGED <<inputVars, optVars, planVars, tspVars, clusVars, G_vehicles, cluster_queue,
                   used_deliveries, unassigned>>

\* the state after lines 170-196: the records are loaded, no cluster visited
InitPlan ==
    /\ G \in RoadNetworks
    /\ vehicles \in Fleets
    /\ deliveries \in DeliverySets
    /\ cluster_mapping \in ClusterTables
    /\ zmrc_shape = {NumNodes}
    /\ rodizio_shape = {}
    /\ ver = <<>>
    /\ readable = ZoneFiles
    /\ cluster_queue = SetToSeq(DOMAIN cluster_mapping)
    /\ delivery_records = deliveries
    /\ pending_deliveries = <<>>
    /\ HeurIdle /\ TspIdle /\ ClusIdle /\ OptIdle
    /\ pc = "plan_clusters"

NextPlan ==
    \/ PlanCluster
    \/ PlanReturn

SpecPlan == InitPlan /\ [][NextPlan]_vars

\* C18: filtering and assignment leave their inputs as they were: the base
\* graph and the vehicle records never change, and every record loaded from
\* deliveries.json keeps exactly the fields and values it was loaded with.
C18_InputsNotMutated ==
    /\ [][G' = G /\ vehicles' = vehicles]_vars
    /\ [](delivery_records = deliveries)

\* lines 176-186: the flags of a cluster's layer in delivery_clusters.gpkg.
\* generate_delivery_clusters (delivery_clustering.py lines 110-152) flags a
\* cluster for a zone exactly when one of its deliveries is inside the zone
cluster_meta(cluster_id) ==
    LET zones == {detect_zone(deliveries_dict(cluster_mapping[cluster_id][k]).coords) :
                     k \in DOMAIN cluster_mapping[cluster_id]}
    IN [requires_zmrc |-> "ZMRC" \in zones, requires_rodizio |-> "Rodizio" \in zones]

\* lines 32-42
is_vehicle_allowed_for_cluster(vehicle, meta) ==
    IF vehicle.allowed_in_rodizio /\ vehicle.allowed_in_zmrc THEN TRUE
    ELSE IF meta.requires_rodizio /\ ~vehicle.allowed_in_rodizio THEN FALSE
    ELSE IF meta.requires_zmrc /\ ~vehicle.allowed_in_zmrc THEN FALSE
    ELSE TRUE

\* C19: every delivery on a route, whether its cluster was assigned in the
\* first pass or its deliveries were re-assigned afterwards, belongs to a
\* cluster whose zone flags the route's vehicle is allowed for: a cluster
\* that requires ZMRC (Rodizio) is never carried by a vehicle that is not
\* allowed in ZMRC (Rodizio).
C19_ZonePermissionsRespected ==
    \A n \in DOMAIN assignments_final :
        \A k \in DOMAIN assignments_final[n].deliveries :
            is_vehicle_allowed_for_cluster(
                assignments_final[n].vehicle,
                cluster_meta(assignments_final[n].deliveries[k].cluster_id[2]))

\* C22: no route recorded by the first pass of assign_clusters_to_routes has
\* a real travel distance above 1.5 times the summed straight-line distance
\* of its deliveries from the warehouse, however many deliveries it holds.
C22_InefficientRouteRejected ==
    \A n \in DOMAIN assignments_final :
        LET r == assignments_final[n]
            members == [k \in DOMAIN r.deliveries |-> r.deliveries[k].delivery]
        IN r.deliveries[1].cluster_id[1] = "Cluster" =>
              RealDistance(G, r.path) * EFFICIENCY_THRESHOLD_DEN
                 <= StraightDistance(members) * EFFICIENCY_THRESHOLD_NUM

\* C29: the path of every recorded route is a walk in the filtered graph of
\* the route's vehicle: each two consecutive nodes are joined by an edge of
\* that graph (so no node is repeated consecutively and no node of a zone
\* removed for the vehicle is on the path).
C29_PathIsWalk ==
    \A n \in DOMAIN assignments_final :
        LET r == assignments_final[n]
            G_vehicle == filter_graph_for_vehicle_rp(G, r.vehicle)
        IN \A i \in 1..(Len(r.path) - 1) : <<r.path[i], r.path[i + 1]>> \in Edges(G_vehicle)

\* C30: when assign_clusters_to_routes has returned, every delivery that was
\* handed to assign_remaining_deliveries_to_vehicles is on exactly one route
\* or is one of the deliveries counted as not assigned, never neither.
C30_PendingAccounted ==
    pc = "plan_returned" =>
        \A did \in Range(pending_deliveries) :
            Count(did) + (IF did \in warned THEN 1 ELSE 0) = 1

-----------------------------------------------------------------------------
(* assign_clusters_heuristic.py lines 192-198: ordering and stitching of one
   route, on road graphs with one-way edges of different lengths *)

MaxLength == 2

\* every directed graph on the nodes whose edges have a length in 1..MaxLength
WeightedNetworks ==
    LET pairs == {e \in Nodes \X Nodes : e[1] # e[2]}
    IN {[nodes  |-> Nodes,
         length |-> [e \in {e \in pairs : w[e] > 0} |-> w[e]]] :
           w \in [pairs -> 0..MaxLength]}

\* line 192: [wh_node] + delivery nodes + [wh_node], up to NumDeliveries deliveries
StitchRoutes(g) ==
    LET wh_node == get_nearest_node(g, WAREHOUSE_COORDS)
    IN UNION {{<<wh_node>> \o stops \o <<wh_node>> : stops \in [1..n -> g.nodes]} :
                 n \in 1..NumDeliveries}

\* line 194: optimized_nodes = two_opt_fixed(full_path, G_vehicle)
OrderStops ==
    /\ pc = "st_start"
    /\ opt_best' = two_opt_fixed(opt_route, G)
    /\ opt_best_cost' = path_length(opt_best', G)
    /\ pc' = "st_ordered"
    /\ UNCHANGED <<inputVars, planVars, heurVars, tspVars, clusVars, opt_route, opt_improved,
                   opt_i, opt_j>>

\* lines 195-198: full_path_validated and total_distance, or the exception
\* raised for a path of fewer than two distinct nodes
StitchStrict ==
    /\ pc = "st_ordered"
    /\ LET full_path_validated == build_full_path_strict(G, opt_best)
       IN IF Cardinality(Range(full_path_validated)) < 2
          THEN /\ pc' = "st_failed"
               /\ UNCHANGED <<stitched_path, total_distance>>
          ELSE /\ stitched_path' = full_path_validated
               /\ total_distance' =
                     SumSeq([i \in 1..(Len(full_path_validated) - 1) |->
                                shortest_path_length(G, full_path_validated[i],
                                                     full_path_validated[i + 1])])
               /\ pc' = "st_stored"
    /\ UNCHANGED <<inputVars, planVars, heurVars, clusVars, optVars, tsp_path>>

InitStitch ==
    /\ G \in WeightedNetworks
    /\ vehicles = <<>>
    /\ deliveries = <<>>
    /\ cluster_mapping = <<>>
    /\ zmrc_shape = {}
    /\ rodizio_shape = {}
    /\ ver = <<>>
    /\ cluster_queue = <<>>
    /\ readable = ZoneFiles
    /\ HeurIdle /\ TspIdle /\ ClusIdle /\ PlanIdle
    /\ opt_route \in StitchRoutes(G)
    /\ opt_best = <<>>
    /\ opt_best_cost = 0
    /\ opt_improved = FALSE
    /\ opt_i = 0
    /\ opt_j = 0
    /\ pc = "st_start"

NextStitch ==
    \/ OrderStops
    \/ StitchStrict

SpecStitch == InitStitch /\ [][NextStitch]_vars

\* C27: when every leg of the order two_opt_fixed returned has a path, the
\* stored path is that order stitched leg by leg, and its distance is not
\* above the path_length of that order.
C27_StitchKeepsOrder ==
    (pc = "st_stored" /\ opt_best_cost < NO_PATH_PENALTY) =>
        /\ stitched_path = StitchLegs(G, opt_best) \o <<opt_best[Len(opt_best)]>>
        /\ total_distance <= opt_best_cost

====
